---- MODULE Spec2Model ----
(***************************************************************************)
(* metadata_change_handler_t<metadata_t> and its client object             *)
(* metadata_change_request_t (clustering/administration/                   *)
(* metadata_change_handler.hpp).                                           *)
(*                                                                         *)
(* One handler lives on the server peer.  Every client peer c constructs   *)
(* one metadata_change_request_t against it, so the session the handler    *)
(* spawns for that request is named by c as well.  metadata_t is a         *)
(* semilattice; it is modelled as the subsets of Vals with union as join.  *)
(***************************************************************************)
EXTENDS Integers, FiniteSets, Sequences, TLC

\* ---- bounds ----
NumClients == 2
MaxVal == 2
MaxUpdateCalls == 1
MaxRepeatCalls == 2

Clients == 1..NumClients
Vals == 1..MaxVal

VARIABLES
    \* handler (server peer)
    store,          \* metadata_view's value
    registry,       \* coro_invalid_conditions: sessions whose flag is registered
    invalid,        \* invalid_condition of each session (pulsed or not)
    commit_done,    \* commit_done of each session (pulsed or not)
    spc,            \* position of remote_change_request_coro of each session
    results,        \* spawned send_result tasks that have not run yet
    hstate,         \* the handler object: "alive", "draining" (its destructor
                    \* waits in ~auto_drainer_t), "released" (its members are
                    \* destroyed), "aborted" (the process crashed)
    \* change request (client peer c)
    cpc,            \* position of the client: constructor, update(), destructor
    ack_done,       \* the constructor's cond_t done
    interest_acquired,
    remote_metadata,
    ncall,          \* number of update() calls made on the change request
    promise,        \* result_promise of the current update(): "unset", "T", "F"
    cret,           \* value returned by the last update(): "none", "T", "F"
    \* messaging substrate
    net,            \* messages in flight
    link,           \* connection between client c and the server: "up", "down"
    cliDown,        \* client c's connectivity service has seen the server go
    srvDown,        \* the server's connectivity service has seen client c go
    \* history (not program state)
    updDuring,      \* update() ran on the handler after the session's Ack was
                    \* sent and before a Commit of the session was resolved
    joined,         \* the update() calls of c whose metadata was joined
    nCommit,        \* number of Commit messages the change request has sent
    resultSent,     \* number of Result messages sent for the session
    awaited         \* the sessions with a task in flight when ~handler began

hvars == <<store, registry, invalid, commit_done, spc, results, hstate>>
cvars == <<cpc, ack_done, interest_acquired, remote_metadata, ncall, promise, cret>>
nvars == <<net, link, cliDown, srvDown>>
gvars == <<updDuring, joined, nCommit, resultSent, awaited>>
vars == <<hvars, cvars, nvars, gvars>>

\* ---- messages (lines 18-40) ----
request_msg_t(c) ==
    [type |-> "Request", c |-> c, k |-> 0, flag |-> FALSE, metadata |-> {}]
\* an Ack that carries an empty snapshot instead of the store
ack_msg_blank(c, m) ==
    [type |-> "Ack", c |-> c, k |-> 0, flag |-> FALSE, metadata |-> {}]
ack_msg_t(c, m) ==
    [type |-> "Ack", c |-> c, k |-> 0, flag |-> FALSE, metadata |-> m]
commit_msg_t(c, k, commit, m) ==
    [type |-> "Commit", c |-> c, k |-> k, flag |-> commit, metadata |-> m]
result_msg_t(c, k, value) ==
    [type |-> "Result", c |-> c, k |-> k, flag |-> value, metadata |-> {}]

\* ---- external collaborators ----
\* semilattice join of the metadata store
Join(a, b) == a \cup b

\* send(): a message to a peer that is gone is silently dropped
Send(c, m) == IF link[c] = "up" THEN net \cup {m} ELSE net

\* disconnect_watcher_t::is_pulsed() on the client / on the server
ClientWatcherPulsed(c) == cliDown[c]
ServerWatcherPulsed(c) == srvDown[c]

BoolStr(b) == IF b THEN "T" ELSE "F"

\* ---- handler ----
\* update() that forgets to pulse the registered flags
PulseNone(inv, reg) == inv

\* update() that pulses only the first registered flag
PulseFirst(inv, reg) ==
    [c \in Clients |-> inv[c] \/ (c \in reg /\ \A d \in reg : c <= d)]

\* update() that pulses only the last registered flag
PulseLast(inv, reg) ==
    [c \in Clients |-> inv[c] \/ (c \in reg /\ \A d \in reg : d <= c)]

\* update(), lines 65-67: pulse every registered invalid_condition
PulseAll(inv, reg) == [c \in Clients |-> inv[c] \/ c \in reg]

\* update(), line 69
UpdateStore(st, m) == Join(st, m)

\* handle_commit that does not look at msg.commit
IsCommitAlways(m) == TRUE

\* handle_commit, line 176: Commit{false} is the abandonment
IsCommit(m) == m.flag

\* handle_commit with the test of the flag inverted
SuccessInverted(flag) == flag

\* handle_commit that accepts whatever the flag says
SuccessAlways(flag) == TRUE

\* handle_commit, line 177
Success(flag) == ~flag

\* handle_commit that forgets done->pulse()
PulseDoneNever(cd, c) == cd

\* handle_commit, line 187
PulseDone(cd, c) == [cd EXCEPT ![c] = TRUE]

\* cond_t::pulse on a condition that is already pulsed is outside its
\* contract: a build with the assertion aborts, a build without it goes on
DoublePulse(cd, c, h) == IF cd[c] THEN {h, "aborted"} ELSE {h}

\* a session that waits for its Commit alone
SessionWaitCommitOnly(c) == commit_done[c]

\* a session whose wait may return although nothing was pulsed
SessionWaitSpurious(c) == TRUE

\* the wait of remote_change_request_coro, lines 165-166
SessionWaitOver(c) == commit_done[c] \/ ServerWatcherPulsed(c)

\* the wait of the constructor, lines 87-88, and of update(), lines 114-115
AckWaitOver(c) == ack_done[c] \/ ClientWatcherPulsed(c)
ResultWaitOver(c) == promise[c] # "unset" \/ ClientWatcherPulsed(c)

\* constructor without the check of the disconnect watcher
ConstructorNeverThrows(done, dc) == FALSE

\* constructor, lines 90-91: TRUE when resource_lost_exc_t is thrown
ConstructorThrows(done, dc) == dc

\* update() that tests the disconnect watcher first, as the constructor does
UpdateReturnWatcherFirst(p, dc) == IF dc \/ p = "unset" THEN "F" ELSE p

\* update(), lines 117-121
UpdateReturn(p, dc) == IF p # "unset" THEN p ELSE "F"

\* a destructor without the check of the registry
GuaranteeNeverFails(reg) == FALSE

\* ~metadata_change_handler_t, line 51: TRUE when the guarantee fails
GuaranteeFails(reg) == reg # {}

\* a drainer that tracks the session tasks but not the send_result tasks
LocksHeldSessionsOnly(pc, res) == {c \in Clients : pc[c] \in {"spawned", "wait"}}

\* the auto_drainer_t::lock_t objects alive (lines 150 and 185): one per
\* session task from its spawn to its end, one per send_result task
LocksHeld(pc, res) ==
    {c \in Clients : pc[c] \in {"spawned", "wait"}} \cup {r.c : r \in res}

\* the Ack of session c was sent and no Commit of it has been resolved
Outstanding(c) == spc[c] \in {"wait", "done"} /\ ~commit_done[c]

Init ==
    /\ store = {}
    /\ registry = {}
    /\ invalid = [c \in Clients |-> FALSE]
    /\ commit_done = [c \in Clients |-> FALSE]
    /\ spc = [c \in Clients |-> "none"]
    /\ results = {}
    /\ hstate = "alive"
    /\ cpc = [c \in Clients |-> "idle"]
    /\ ack_done = [c \in Clients |-> FALSE]
    /\ interest_acquired = [c \in Clients |-> FALSE]
    /\ remote_metadata = [c \in Clients |-> {}]
    /\ ncall = [c \in Clients |-> 0]
    /\ promise = [c \in Clients |-> "unset"]
    /\ cret = [c \in Clients |-> "none"]
    /\ net = {}
    /\ link = [c \in Clients |-> "up"]
    /\ cliDown = [c \in Clients |-> FALSE]
    /\ srvDown = [c \in Clients |-> FALSE]
    /\ updDuring = [c \in Clients |-> FALSE]
    /\ joined = [c \in Clients |-> {}]
    /\ nCommit = [c \in Clients |-> 0]
    /\ resultSent = [c \in Clients |-> 0]
    /\ awaited = {}

\* ---- handler actions ----

\* metadata_change_handler_t::update called by the handler's owner (lines 64-70)
LocalUpdate(v) ==
    /\ hstate = "alive"
    /\ invalid' = PulseAll(invalid, registry)
    /\ store' = UpdateStore(store, {v})
    /\ updDuring' = [c \in Clients |-> updDuring[c] \/ Outstanding(c)]
    /\ UNCHANGED <<registry, commit_done, spc, results, hstate, cvars, nvars,
                   joined, nCommit, resultSent, awaited>>

\* remote_change_request (lines 145-151): the Request arrives, the session
\* coroutine is spawned to run sometime.  request_mailbox is declared before
\* drainer, so it still delivers while the destructor waits in the drainer.
RemoteChangeRequest(c) ==
    /\ hstate \in {"alive", "draining"}
    /\ request_msg_t(c) \in net
    /\ spc[c] = "none"
    /\ net' = net \ {request_msg_t(c)}
    /\ spc' = [spc EXCEPT ![c] = "spawned"]
    /\ UNCHANGED <<store, registry, invalid, commit_done, results, hstate,
                   cvars, link, cliDown, srvDown, gvars>>

\* a session that sends its Ack without having registered its flag
SessionStartUnregistered(c) ==
    /\ hstate # "aborted"
    /\ spc[c] = "spawned"
    /\ net' = Send(c, ack_msg_t(c, store))
    /\ spc' = [spc EXCEPT ![c] = "wait"]
    /\ UNCHANGED <<store, registry, invalid, commit_done, results, hstate,
                   cvars, link, cliDown, srvDown, gvars>>

\* remote_change_request_coro up to its wait (lines 155-166)
SessionStart(c) ==
    /\ hstate # "aborted"
    /\ spc[c] = "spawned"
    /\ registry' = registry \cup {c}
    /\ net' = Send(c, ack_msg_t(c, store))
    /\ spc' = [spc EXCEPT ![c] = "wait"]
    /\ UNCHANGED <<store, invalid, commit_done, results, hstate, cvars,
                   link, cliDown, srvDown, gvars>>

\* handle_commit (lines 172-188), run by the session's commit mailbox, which
\* lives as long as the coroutine's frame
HandleCommit(c) ==
    \E m \in net :
        /\ m.type = "Commit" /\ m.c = c
        /\ hstate # "aborted"
        /\ spc[c] = "wait"
        /\ net' = net \ {m}
        /\ IF IsCommit(m)
           THEN LET success == Success(invalid[c]) IN
                /\ IF success
                   THEN /\ invalid' = PulseAll(invalid, registry)
                        /\ store' = UpdateStore(store, m.metadata)
                        /\ joined' = [joined EXCEPT ![c] = @ \cup {m.k}]
                        /\ updDuring' = [d \in Clients |->
                               updDuring[d] \/ (d # c /\ Outstanding(d))]
                   ELSE UNCHANGED <<invalid, store, joined, updDuring>>
                /\ results' = results \cup {result_msg_t(c, m.k, success)}
           ELSE UNCHANGED <<invalid, store, joined, updDuring, results>>
        /\ commit_done' = PulseDone(commit_done, c)
        /\ hstate' \in DoublePulse(commit_done, c, hstate)
        /\ UNCHANGED <<registry, spc, cvars, link, cliDown, srvDown,
                       nCommit, resultSent, awaited>>

\* remote_change_request_coro after its wait (lines 166-170)
SessionResume(c) ==
    /\ hstate # "aborted"
    /\ spc[c] = "wait"
    /\ SessionWaitOver(c)
    /\ registry' = registry \ {c}
    /\ spc' = [spc EXCEPT ![c] = "done"]
    /\ UNCHANGED <<store, invalid, commit_done, results, hstate, cvars, nvars,
                   gvars>>

\* send_result (lines 190-192)
SendResult(c) ==
    \E r \in results :
        /\ r.c = c
        /\ hstate # "aborted"
        /\ results' = results \ {r}
        /\ net' = Send(c, r)
        /\ resultSent' = [resultSent EXCEPT ![c] = @ + 1]
        /\ UNCHANGED <<store, registry, invalid, commit_done, spc, hstate,
                       cvars, link, cliDown, srvDown, updDuring, joined,
                       nCommit, awaited>>

\* ~metadata_change_handler_t (lines 50-52): the body checks the registry,
\* then the members are destroyed in reverse order of declaration (lines
\* 139-143), drainer first
DestroyHandler ==
    /\ hstate = "alive"
    /\ hstate' = IF GuaranteeFails(registry) THEN "aborted" ELSE "draining"
    /\ awaited' = LocksHeld(spc, results)
    /\ UNCHANGED <<store, registry, invalid, commit_done, spc, results,
                   cvars, nvars, updDuring, joined, nCommit, resultSent>>

\* ~auto_drainer_t returns once every lock is gone; the registry, the store
\* reference and the request mailbox are destroyed right after it
DrainComplete ==
    /\ hstate = "draining"
    /\ LocksHeld(spc, results) = {}
    /\ hstate' = "released"
    /\ UNCHANGED <<store, registry, invalid, commit_done, spc, results,
                   cvars, nvars, gvars>>

\* ---- change request actions ----

\* constructor up to its wait (lines 75-88)
Construct(c) ==
    /\ cpc[c] = "idle"
    /\ interest_acquired' = [interest_acquired EXCEPT ![c] = TRUE]
    /\ net' = Send(c, request_msg_t(c))
    /\ cpc' = [cpc EXCEPT ![c] = "ackWait"]
    /\ UNCHANGED <<hvars, ack_done, remote_metadata, ncall, promise, cret,
                   link, cliDown, srvDown, gvars>>

\* handle_ack (lines 125-130), run by the constructor's ack mailbox
HandleAck(c) ==
    \E m \in net :
        /\ m.type = "Ack" /\ m.c = c
        /\ cpc[c] = "ackWait"
        /\ net' = net \ {m}
        /\ remote_metadata' = [remote_metadata EXCEPT ![c] = m.metadata]
        /\ ack_done' = [ack_done EXCEPT ![c] = TRUE]
        /\ UNCHANGED <<hvars, cpc, interest_acquired, ncall, promise, cret,
                       link, cliDown, srvDown, gvars>>

\* constructor after its wait (lines 88-92); a constructor that throws leaves
\* no object, so no destructor runs
ConstructResume(c) ==
    /\ cpc[c] = "ackWait"
    /\ AckWaitOver(c)
    /\ cpc' = [cpc EXCEPT ![c] =
                  IF ConstructorThrows(ack_done[c], ClientWatcherPulsed(c))
                  THEN "failed" ELSE "ready"]
    /\ UNCHANGED <<hvars, ack_done, interest_acquired, remote_metadata, ncall,
                   promise, cret, nvars, gvars>>

\* metadata_change_request_t::update up to its wait (lines 105-115)
Update(c, v) ==
    /\ cpc[c] = "ready"
    /\ interest_acquired' = [interest_acquired EXCEPT ![c] = FALSE]
    /\ ncall' = [ncall EXCEPT ![c] = @ + 1]
    /\ promise' = [promise EXCEPT ![c] = "unset"]
    /\ net' = Send(c, commit_msg_t(c, ncall[c] + 1, TRUE, {v}))
    /\ nCommit' = [nCommit EXCEPT ![c] = @ + 1]
    /\ cpc' = [cpc EXCEPT ![c] = "resWait"]
    /\ UNCHANGED <<hvars, ack_done, remote_metadata, cret,
                   link, cliDown, srvDown, updDuring, joined, resultSent,
                   awaited>>

\* update() is called at most once on a change request
ClientUpdate(c, v) == ncall[c] < MaxUpdateCalls /\ Update(c, v)

\* update() is called again on the same change request
RepeatUpdate(c, v) == ncall[c] < MaxRepeatCalls /\ Update(c, v)

\* promise_t::pulse run by the result mailbox of the current update() (108-110)
HandleResult(c) ==
    \E m \in net :
        /\ m.type = "Result" /\ m.c = c /\ m.k = ncall[c]
        /\ cpc[c] = "resWait"
        /\ promise[c] = "unset"
        /\ net' = net \ {m}
        /\ promise' = [promise EXCEPT ![c] = BoolStr(m.flag)]
        /\ UNCHANGED <<hvars, cpc, ack_done, interest_acquired, remote_metadata,
                       ncall, cret, link, cliDown, srvDown, gvars>>

\* metadata_change_request_t::update after its wait (lines 115-122)
UpdateResume(c) ==
    /\ cpc[c] = "resWait"
    /\ ResultWaitOver(c)
    /\ cret' = [cret EXCEPT ![c] = UpdateReturn(promise[c], ClientWatcherPulsed(c))]
    /\ cpc' = [cpc EXCEPT ![c] = "ready"]
    /\ UNCHANGED <<hvars, ack_done, interest_acquired, remote_metadata, ncall,
                   promise, nvars, gvars>>

\* ~metadata_change_request_t (lines 94-99)
Destroy(c) ==
    /\ cpc[c] = "ready"
    /\ IF interest_acquired[c]
       THEN /\ net' = Send(c, commit_msg_t(c, 0, FALSE, {}))
            /\ nCommit' = [nCommit EXCEPT ![c] = @ + 1]
       ELSE UNCHANGED <<net, nCommit>>
    /\ cpc' = [cpc EXCEPT ![c] = "destroyed"]
    /\ UNCHANGED <<hvars, ack_done, interest_acquired, remote_metadata, ncall,
                   promise, cret, link, cliDown, srvDown,
                   updDuring, joined, resultSent, awaited>>

\* ---- messaging substrate ----

\* A message addressed to a mailbox that no longer exists is never delivered:
\* the guards of the handlers above state the lifetime of each mailbox.

\* the connection between client c and the server breaks; what was in flight
\* on it is lost
Disconnect(c) ==
    /\ link[c] = "up"
    /\ link' = [link EXCEPT ![c] = "down"]
    /\ net' = {m \in net : m.c # c}
    /\ UNCHANGED <<hvars, cvars, cliDown, srvDown, gvars>>

\* each side's connectivity service notices the loss on its own
DetectClient(c) ==
    /\ link[c] = "down" /\ ~cliDown[c]
    /\ cliDown' = [cliDown EXCEPT ![c] = TRUE]
    /\ UNCHANGED <<hvars, cvars, net, link, srvDown, gvars>>

DetectServer(c) ==
    /\ link[c] = "down" /\ ~srvDown[c]
    /\ srvDown' = [srvDown EXCEPT ![c] = TRUE]
    /\ UNCHANGED <<hvars, cvars, net, link, cliDown, gvars>>

Next ==
    \/ \E v \in Vals : LocalUpdate(v)
    \/ \E c \in Clients : RemoteChangeRequest(c)
    \/ \E c \in Clients : SessionStart(c)
    \/ \E c \in Clients : HandleCommit(c)
    \/ \E c \in Clients : SessionResume(c)
    \/ \E c \in Clients : SendResult(c)
    \/ \E c \in Clients : Construct(c)
    \/ \E c \in Clients : HandleAck(c)
    \/ \E c \in Clients : ConstructResume(c)
    \/ \E c \in Clients, v \in Vals : ClientUpdate(c, v)
    \/ \E c \in Clients : HandleResult(c)
    \/ \E c \in Clients : UpdateResume(c)
    \/ \E c \in Clients : Destroy(c)
    \/ \E c \in Clients : Disconnect(c)
    \/ \E c \in Clients : DetectClient(c)
    \/ \E c \in Clients : DetectServer(c)

Spec == Init /\ [][Next]_vars

\* The coroutine scheduler runs every coroutine that was spawned or notified,
\* the mailboxes deliver what reaches them, and each connectivity service
\* notices a lost peer.  What the users of the two objects do (constructing,
\* update(), destroying) and the loss of a connection are under no obligation.
Fairness ==
    \A c \in Clients :
        /\ WF_vars(RemoteChangeRequest(c))
        /\ WF_vars(SessionStart(c))
        /\ WF_vars(HandleCommit(c))
        /\ WF_vars(SessionResume(c))
        /\ WF_vars(SendResult(c))
        /\ WF_vars(HandleAck(c))
        /\ WF_vars(ConstructResume(c))
        /\ WF_vars(HandleResult(c))
        /\ WF_vars(UpdateResume(c))
        /\ WF_vars(DetectClient(c))
        /\ WF_vars(DetectServer(c))

\* The liveness properties are checked on the executions in which the change
\* requests are constructed one after the other: a request is constructed
\* once the earlier ones have failed or been destroyed and the handler runs
\* no task for them any more.  Every other step is as in Next.
ConstructInTurn(c) ==
    /\ \A d \in Clients :
          d < c => /\ cpc[d] \in {"failed", "destroyed"}
                   /\ spc[d] \in {"none", "done"}
                   /\ \A r \in results : r.c # d
    /\ Construct(c)

FairNext ==
    \/ \E v \in Vals : LocalUpdate(v)
    \/ \E c \in Clients : RemoteChangeRequest(c)
    \/ \E c \in Clients : SessionStart(c)
    \/ \E c \in Clients : HandleCommit(c)
    \/ \E c \in Clients : SessionResume(c)
    \/ \E c \in Clients : SendResult(c)
    \/ \E c \in Clients : ConstructInTurn(c)
    \/ \E c \in Clients : HandleAck(c)
    \/ \E c \in Clients : ConstructResume(c)
    \/ \E c \in Clients, v \in Vals : ClientUpdate(c, v)
    \/ \E c \in Clients : HandleResult(c)
    \/ \E c \in Clients : UpdateResume(c)
    \/ \E c \in Clients : Destroy(c)
    \/ \E c \in Clients : Disconnect(c)
    \/ \E c \in Clients : DetectClient(c)
    \/ \E c \in Clients : DetectServer(c)

FairSpec == Init /\ [][FairNext]_vars /\ Fairness

\* The life of the handler up to and including its destruction, which its
\* owner may begin at any moment; the change requests are constructed in turn.
LifeNext ==
    \/ FairNext
    \/ DestroyHandler
    \/ DrainComplete

LifeSpec == Init /\ [][LifeNext]_vars

\* The executions in which a change request is used for more than one
\* update(); the change requests are constructed in turn.
RepeatNext ==
    \/ \E v \in Vals : LocalUpdate(v)
    \/ \E c \in Clients : RemoteChangeRequest(c)
    \/ \E c \in Clients : SessionStart(c)
    \/ \E c \in Clients : HandleCommit(c)
    \/ \E c \in Clients : SessionResume(c)
    \/ \E c \in Clients : SendResult(c)
    \/ \E c \in Clients : ConstructInTurn(c)
    \/ \E c \in Clients : HandleAck(c)
    \/ \E c \in Clients : ConstructResume(c)
    \/ \E c \in Clients, v \in Vals : RepeatUpdate(c, v)
    \/ \E c \in Clients : HandleResult(c)
    \/ \E c \in Clients : UpdateResume(c)
    \/ \E c \in Clients : Destroy(c)
    \/ \E c \in Clients : Disconnect(c)
    \/ \E c \in Clients : DetectClient(c)
    \/ \E c \in Clients : DetectServer(c)

RepeatSpec == Init /\ [][RepeatNext]_vars

\* ---- properties ----

Returned(c) == cpc[c] \in {"ready", "destroyed"} /\ ncall[c] > 0

\* C1: when update() ran on the handler after a session's Ack was sent and
\* before the session's Commit{true} was resolved, the client's update() does
\* not return true and nothing of that change request is joined into the store.
C1_StaleCommitRejected ==
    \A c \in Clients :
        updDuring[c] =>
            /\ joined[c] = {}
            /\ promise[c] # "T"
            /\ Returned(c) => cret[c] = "F"

\* the client's update() returned false on a Result{false}, after a local
\* update() invalidated its session
C1_Witness ==
    \E c \in Clients :
        /\ updDuring[c] /\ Returned(c)
        /\ promise[c] = "F" /\ cret[c] = "F"
        /\ store # {}

\* C2 as stated: with no update() on the handler between the Ack and the
\* client's update(), the client's update() returns true.
C2_Original ==
    \A c \in Clients :
        (Returned(c) /\ ~updDuring[c]) => cret[c] = "T"

\* C2 as amended: with no update() on the handler between the Ack and the
\* resolution of the first Commit{true} of the change request, the Commit is
\* accepted once it is resolved, a Result that reaches the client carries
\* true and makes update() return true, and the accepting step leaves the
\* store equal to join(store at commit time, metadata of the Commit).
C2_FreshCommitAccepted ==
    /\ [](\A c \in Clients :
            (ncall[c] = 1 /\ ~updDuring[c]) =>
                /\ commit_done[c] => joined[c] = {1}
                /\ promise[c] # "unset" => promise[c] = "T"
                /\ (Returned(c) /\ promise[c] # "unset") => cret[c] = "T")
    /\ [][\A c \in Clients :
            joined'[c] # joined[c] =>
                \E m \in net :
                    /\ m.type = "Commit" /\ m.c = c /\ m.flag
                    /\ store' = Join(store, m.metadata)]_vars

\* a commit accepted on a non-empty store that it extends, and reported true
C2_Witness ==
    \E c \in Clients :
        /\ ~updDuring[c] /\ Returned(c) /\ cret[c] = "T" /\ joined[c] = {1}
        /\ remote_metadata[c] # {}
        /\ store # remote_metadata[c]

\* C3: a client's update() that returned false left the store unchanged by
\* that commit attempt.
C3_FalseMeansNotJoined ==
    \A c \in Clients :
        (Returned(c) /\ cret[c] = "F") => ncall[c] \notin joined[c]

\* C4: a change request whose life is over has sent exactly one Commit, and
\* none has ever sent more than one.
C4_ExactlyOneCommit ==
    \A c \in Clients :
        /\ nCommit[c] <= 1
        /\ cpc[c] \in {"failed", "destroyed"} => nCommit[c] = 1

\* C5: a change request on which update() was never called has nothing joined
\* into the store and has no Result spawned or sent for it, and its session,
\* once over, is out of the registry.
C5_AbandonLeavesNoTrace ==
    \A c \in Clients :
        ncall[c] = 0 =>
            /\ joined[c] = {}
            /\ resultSent[c] = 0
            /\ \A r \in results \cup net : ~(r.type = "Result" /\ r.c = c)
            /\ spc[c] = "done" => c \notin registry

\* the session resolved the Commit{false} of a destroyed change request and
\* retired
C5_Witness ==
    \E c \in Clients :
        /\ cpc[c] = "destroyed" /\ ncall[c] = 0 /\ nCommit[c] = 1
        /\ commit_done[c] /\ spc[c] = "done" /\ c \notin registry
        /\ ~srvDown[c]

\* the server holds nothing of the request of c any more
SessionGone(c) ==
    /\ c \notin registry
    /\ spc[c] = "done" \/ (spc[c] = "none" /\ request_msg_t(c) \notin net)

\* C6: when the connection is lost before the client has received the Ack,
\* the construction never succeeds and ends with resource_lost_exc_t, and the
\* session of a failed construction leaves the registry for good.
C6_DisconnectBeforeAck ==
    /\ [](\A c \in Clients :
            (link[c] = "down" /\ ~ack_done[c]) =>
                cpc[c] \in {"idle", "ackWait", "failed"})
    /\ \A c \in Clients :
            (cpc[c] = "ackWait" /\ link[c] = "down" /\ ~ack_done[c])
                ~> (cpc[c] = "failed")
    /\ \A c \in Clients : (cpc[c] = "failed") ~> SessionGone(c)
    /\ [][\A c \in Clients :
            (cpc[c] = "failed" /\ SessionGone(c)) => SessionGone(c)']_vars

\* a construction that failed without an Ack while its session had been
\* registered, and the session has left the registry
C6_Witness ==
    \E c \in Clients :
        /\ cpc[c] = "failed" /\ ~ack_done[c]
        /\ spc[c] = "done" /\ c \notin registry

\* C7: when the connection is lost before the Result of an update() has
\* reached the client, nothing of that update() was joined into the store
\* and the update() returns false.
C7_DisconnectLeavesStoreAlone ==
    \A c \in Clients :
        (link[c] = "down" /\ ncall[c] > 0 /\ promise[c] = "unset") =>
            /\ ncall[c] \notin joined[c]
            /\ Returned(c) => cret[c] = "F"

\* C8: a local update() sets the flag of every session that is registered at
\* that moment and of no other session, and a session whose flag is set has
\* no Commit accepted afterwards: its Results carry false.
C8_UpdateInvalidatesAll ==
    /\ [][(\E v \in Vals : LocalUpdate(v)) =>
            \A c \in Clients :
                invalid'[c] = (invalid[c] \/ c \in registry)]_vars
    /\ [][\A c \in Clients :
            invalid[c] =>
                /\ joined'[c] = joined[c]
                /\ \A r \in results' \ results : r.c = c => ~r.flag]_vars

\* two sessions were outstanding during one local update(), and both commits
\* were rejected
C8_Witness ==
    \E c, d \in Clients :
        /\ c # d
        /\ updDuring[c] /\ updDuring[d]
        /\ promise[c] = "F" /\ promise[d] = "F"
        /\ joined[c] = {} /\ joined[d] = {}
        /\ resultSent[c] = 1 /\ resultSent[d] = 1

\* C9: each wait that is tied to a peer ends once the connection to that
\* peer is lost: the constructor's wait for the Ack, update()'s wait for the
\* Result, and the session's wait for the Commit, after which the session is
\* out of the registry.
C9_WaitsEndOnDisconnect ==
    /\ \A c \in Clients :
            (cpc[c] = "ackWait" /\ link[c] = "down") ~> (cpc[c] # "ackWait")
    /\ \A c \in Clients :
            (cpc[c] = "resWait" /\ link[c] = "down") ~> (cpc[c] # "resWait")
    /\ \A c \in Clients :
            (c \in registry /\ link[c] = "down")
                ~> (c \notin registry /\ spc[c] = "done")

\* a session left the registry on the disconnect alone, and a client's
\* update() came back without a Result
C9_Witness ==
    \E c \in Clients :
        /\ spc[c] = "done" /\ ~commit_done[c] /\ c \notin registry
        /\ Returned(c) /\ promise[c] = "unset"

\* C10: update() returns the boolean of the Result when one was received,
\* also when the disconnect was noticed before update() resumed; it returns
\* false when its wait ended without a Result, which only a disconnect does;
\* and it never ends in the resource-lost error.
C10_UpdateReturnsResult ==
    \A c \in Clients :
        /\ Returned(c) =>
              /\ promise[c] # "unset" => cret[c] = promise[c]
              /\ promise[c] = "unset" => (cret[c] = "F" /\ cliDown[c])
        /\ cpc[c] = "failed" => ncall[c] = 0

\* one update() returned the true of its Result although the disconnect had
\* been noticed, another one returned false without a Result
C10_Witness ==
    \E c, d \in Clients :
        /\ Returned(c) /\ promise[c] = "T" /\ cliDown[c] /\ cret[c] = "T"
        /\ Returned(d) /\ promise[d] = "unset" /\ cret[d] = "F"

\* C11: a session is in the registry exactly while its task is between its
\* start and the end of its wait: it is inserted once, by the start of its
\* task, removed once, when the task leaves its wait, which it does only
\* with a Commit handled or the disconnect seen (the guarantee of line 168),
\* and it never comes back.
C11_RegisteredOnceRemovedOnce ==
    /\ [](\A c \in Clients : c \in registry <=> spc[c] = "wait")
    /\ [][\A c \in Clients :
            /\ (c \notin registry /\ c \in registry') => spc[c] = "spawned"
            /\ (c \in registry /\ c \notin registry') =>
                  /\ commit_done[c] \/ srvDown[c]
                  /\ spc'[c] = "done"
            /\ spc[c] = "done" => (spc'[c] = "done" /\ c \notin registry')
            /\ spc[c] # "none" => spc'[c] # "none"]_vars

\* one session ended by an accepted Commit{true}, another by the disconnect
C11_Witness ==
    \E c, d \in Clients :
        /\ spc[c] = "done" /\ joined[c] = {1} /\ c \notin registry
        /\ spc[d] = "done" /\ ~commit_done[d] /\ srvDown[d] /\ d \notin registry

\* C14: the start of a session registers the flag, reads the store and sends
\* the Ack in one step without suspension, so every step that changes the
\* store while the session waits sets its flag, and a snapshot that differs
\* from the store belongs to a session whose flag is set.
C14_RegisteredBeforeSnapshot ==
    /\ [][\A c \in Clients :
            /\ SessionStart(c) =>
                  /\ c \in registry'
                  /\ link[c] = "up" => ack_msg_t(c, store') \in net'
            /\ (spc[c] = "wait" /\ store' # store) => invalid'[c]]_vars
    /\ [](\A c \in Clients :
            /\ \A m \in net :
                  (m.type = "Ack" /\ m.c = c /\ m.metadata # store) => invalid[c]
            /\ (spc[c] = "wait" /\ ack_done[c] /\ remote_metadata[c] # store)
                  => invalid[c])

\* the Ack is still in flight, the store has moved on, and the flag is set
C14_Witness ==
    \E c \in Clients :
        /\ spc[c] = "wait" /\ c \in registry /\ invalid[c]
        /\ \E m \in net : m.type = "Ack" /\ m.c = c /\ m.metadata # store

\* C15 as stated: no Result of a session has been sent while the session is
\* still in the registry.
C15_Original ==
    \A c \in Clients : resultSent[c] > 0 => c \notin registry

\* C15 as amended: a Result of a session is spawned and sent only after the
\* Commit was resolved and the completion signal pulsed; the session leaves
\* the registry when its task resumes, before or after the Result is sent,
\* and sending the Result does not touch the registry.
C15_ResultAfterResolution ==
    /\ [](\A c \in Clients :
            (resultSent[c] > 0 \/ \E r \in results : r.c = c) =>
                (commit_done[c] /\ spc[c] \in {"wait", "done"}))
    /\ [][\A c \in Clients : SendResult(c) => registry' = registry]_vars

\* the client holds the Result while the session has not resumed yet
C15_Witness ==
    \E c \in Clients :
        /\ resultSent[c] = 1 /\ promise[c] = "T"
        /\ commit_done[c] /\ spc[c] = "wait" /\ c \in registry

\* C16: a step changes the store only if it is a local update() or the
\* resolution of a Commit{true} of a session whose flag is not set.
C16_StoreFrame ==
    [][store' # store =>
          \/ \E v \in Vals : LocalUpdate(v)
          \/ \E c \in Clients :
                /\ HandleCommit(c)
                /\ ~invalid[c]
                /\ \E m \in net \ net' : m.type = "Commit" /\ m.c = c /\ m.flag]_vars

\* a rejected Commit{true} and an abandonment were both resolved on a store
\* that local updates had filled
C16_Witness ==
    \E c, d \in Clients :
        /\ c # d
        /\ commit_done[c] /\ ncall[c] = 1 /\ joined[c] = {} /\ resultSent[c] = 1
        /\ commit_done[d] /\ cpc[d] = "destroyed" /\ ncall[d] = 0
        /\ store = Vals

\* C17: the step that accepts a Commit sets the flag of every session in the
\* registry, and a session whose flag was set before any Commit of it was
\* accepted never has one accepted: all its Results carry false.
C17_AcceptInvalidatesOthers ==
    /\ [][\A c \in Clients :
            joined'[c] # joined[c] => \A d \in registry : invalid'[d]]_vars
    /\ [][\A d \in Clients :
            (invalid[d] /\ joined[d] = {}) => joined'[d] = {}]_vars
    /\ [](\A d \in Clients :
            (invalid[d] /\ joined[d] = {}) =>
                /\ promise[d] # "T"
                /\ \A r \in results \cup net :
                      (r.type = "Result" /\ r.c = d) => ~r.flag)

\* two sessions took their snapshots of the empty store, one Commit was
\* accepted and the other one rejected
C17_Witness ==
    \E c, d \in Clients :
        /\ c # d
        /\ remote_metadata[c] = {} /\ remote_metadata[d] = {}
        /\ joined[c] = {1} /\ promise[c] = "T"
        /\ joined[d] = {} /\ promise[d] = "F" /\ updDuring[d]
        /\ Cardinality(store) = 1

\* C18: an Ack that was received (which only happens before the connection
\* is lost) makes the construction succeed, and a Result that was received
\* is what update() returns.
C18_FirstEventWins ==
    \A c \in Clients :
        /\ ack_done[c] => cpc[c] # "failed"
        /\ (Returned(c) /\ promise[c] # "unset") => cret[c] = promise[c]

\* C19: the step that accepts a Commit{true} finds the store equal to the
\* snapshot the session sent in its Ack, which is the one the client holds.
C19_AcceptOnSnapshot ==
    [][\A c \in Clients :
          joined'[c] # joined[c] =>
              /\ ack_done[c]
              /\ store = remote_metadata[c]]_vars

\* a Commit was accepted on a snapshot that local updates had filled before
\* the Ack
C19_Witness ==
    \E c \in Clients :
        /\ joined[c] = {1} /\ cpc[c] = "resWait" /\ promise[c] = "unset"
        /\ remote_metadata[c] # {} /\ store # remote_metadata[c]

\* C12: the destruction of the handler waits for every spawned task, session
\* tasks and send_result tasks alike: once the registry and the store
\* reference are released no such task is left, and no task takes a step.
C12_DrainBeforeRelease ==
    /\ [](hstate = "released" =>
            /\ \A c \in Clients : spc[c] \in {"none", "done"}
            /\ results = {}
            /\ registry = {})
    /\ [][hstate = "released" =>
            \A c \in Clients :
                ~(SessionStart(c) \/ HandleCommit(c) \/ SessionResume(c)
                    \/ SendResult(c))]_vars
    /\ [][(hstate = "draining" /\ hstate' = "released") =>
            LocksHeld(spc, results) = {}]_vars

\* the destructor found a session task in flight, and the session and its
\* send_result task ran to their ends before the members were released
C12_Witness ==
    \E c \in Clients :
        /\ hstate = "released" /\ c \in awaited
        /\ spc[c] = "done" /\ joined[c] = {1} /\ resultSent[c] = 1

\* C13: the destructor aborts exactly when it finds a session in the
\* registry, an aborted handler does nothing any more, and the destruction
\* goes on to release the members only when the registry was empty.
C13_DestroyWithSessionsAborts ==
    /\ [][(hstate = "alive" /\ hstate' # "alive") =>
            /\ registry # {} => hstate' = "aborted"
            /\ registry = {} => hstate' = "draining"]_vars
    /\ [][hstate = "aborted" => hvars' = hvars]_vars
    /\ [][hstate' = "released" => hstate \in {"draining", "released"}]_vars

\* the handler was destroyed while a session waited for its Commit
C13_Witness ==
    \E c \in Clients :
        /\ hstate = "aborted" /\ c \in registry /\ spc[c] = "wait"
        /\ cpc[c] = "ready" /\ ~commit_done[c]

\* C20: no session has more than one Result sent, however often update() is
\* called on its change request.
C20_AtMostOneResult ==
    \A c \in Clients : resultSent[c] <= 1

====
